---- MODULE Spec2Model ----
(***************************************************************************)
(* A model of AutomationUI (src/richie.py): the step-execution loop        *)
(* run_automation / run_step, the event log, the keyboard poller and the   *)
(* SIGINT/SIGTERM handler.                                                 *)
(*                                                                         *)
(* Control is a stack of frames.  frames[1] is the main flow (the call of  *)
(* run_automation); every delivered signal pushes a frame that runs        *)
(* handle_interrupt to its end before the frame below resumes, which is    *)
(* how CPython runs a Python-level signal handler in the main thread.      *)
(* Only the top frame takes steps.  Each action holds at most one access   *)
(* to the state a handler reads or writes (is_running, current_step,       *)
(* session_logs, a prompt), so that a signal may fall between any two.     *)
(***************************************************************************)
EXTENDS Integers, Sequences, FiniteSets, TLC

VARIABLES
    steps,          \* the list handed to run_automation
    current_step,   \* self.current_step
    session_logs,   \* self.session_logs
    is_running,     \* self.is_running
    frames,         \* control stack: main flow, then the running handlers
    action,         \* run_step's local `action`
    desc,           \* display_progress's argument `description`
    error,          \* the exception caught by run_automation, if any
    kbuf,           \* the console's pending keystroke bytes (msvcrt)
    clock,          \* datetime.datetime.now(), as a logical clock
    sigCount,       \* signals delivered so far
    keyCount,       \* keystrokes typed so far
    exports,        \* export format prompts answered so far
    cleanup_calls,  \* how many times cleanup() has been entered
    content,        \* the text _format_logs_as_json returned
    parsed          \* what json.loads makes of that text

vars == <<steps, current_step, session_logs, is_running, frames, action, desc,
          error, kbuf, clock, sigCount, keyCount, exports, cleanup_calls,
          content, parsed>>

(***************************************************************************)
(* Bounds of the model.                                                    *)
(***************************************************************************)
MaxSteps == 2

\* the events that arrive from outside in one run: keystrokes, signals and
\* answers to the export format prompt
MaxInputs == 3

(***************************************************************************)
(* Key codes.                                                              *)
(***************************************************************************)
KEY_ENTER == 13

KEY_h == 104

KEY_q == 113

KEY_l == 108

KEY_r == 114

KEY_s == 115

\* 'Q', typed with shift or caps lock
KEY_UPPER_Q == 81

\* 'x', a character key outside the mapping
KEY_x == 120

\* first byte msvcrt.getch() returns for an arrow key; the key code follows
KEY_PREFIX_E0 == 224

\* the key code of the up arrow, which is also the code of 'H'
KEY_UP == 72

\* the bytes one keystroke puts into the console buffer
KeyStrokes ==
    { <<KEY_ENTER>>, <<KEY_h>>, <<KEY_q>>, <<KEY_UPPER_Q>>, <<KEY_l>>, <<KEY_r>>,
      <<KEY_s>>, <<KEY_x>>, <<KEY_PREFIX_E0, KEY_UP>> }

(***************************************************************************)
(* The steps of the caller.                                                *)
(***************************************************************************)
StepPool ==
    <<[title |-> "Initialize System Configuration", status |-> "Ready to start"],
      [title |-> "Data Preparation", status |-> "Waiting for previous step"],
      [title |-> "Step 3", status |-> "pending"],
      [title |-> "Step 4", status |-> "pending"]>>

StepLists == { SubSeq(StepPool, 1, n) : n \in 0..MaxSteps }

(***************************************************************************)
(* log_event                                                               *)
(***************************************************************************)
\* no rendering has been parsed yet
NotParsed == [type |-> "none"]

NoDetails == [k \in {} |-> ""]


\* a variant of LogEntry that stamps the 0-based index
LogEntry_zero_based(event, details) ==
    [timestamp |-> clock, event |-> event, step |-> current_step,
     details |-> details]

LogEntry(event, details) ==
    [timestamp |-> clock, event |-> event, step |-> current_step + 1,
     details |-> details]

\* a variant of log_event that folds an event into the last entry when that
\* entry carries the same event
log_event_merging(event, details) ==
    /\ session_logs' =
         IF session_logs # <<>> /\ session_logs[Len(session_logs)].event = event
         THEN [session_logs EXCEPT ![Len(session_logs)] = LogEntry(event, details)]
         ELSE Append(session_logs, LogEntry(event, details))
    /\ clock' = clock + 1

log_event(event, details) ==
    /\ session_logs' = Append(session_logs, LogEntry(event, details))
    /\ clock' = clock + 1

\* print_message: console output, then log_event("Message displayed", ...)
print_message(message, level) ==
    log_event("Message displayed", [message |-> message, level |-> level])

(***************************************************************************)
(* check_keyboard_input                                                    *)
(***************************************************************************)
\* bytes.decode('utf-8') of one byte: a byte >= 0x80 alone is never valid
DecodeFails(b) == b >= 128

\* str.lower() on one ASCII character
Lower(c) == IF c >= 65 /\ c <= 90 THEN c + 32 ELSE c

\* actions.get(key)
ActionOf(c) ==
    CASE c = KEY_ENTER -> "proceed"
      [] c = KEY_h -> "help"
      [] c = KEY_q -> "exit"
      [] c = KEY_l -> "logs"
      [] c = KEY_r -> "retry"
      [] c = KEY_s -> "summary"
      [] OTHER -> "None"

\* the outcome of one call: "None", an action, or "raise"
check_keyboard_input(buf) ==
    IF buf = <<>> THEN "None"
    ELSE IF DecodeFails(Head(buf)) THEN "raise"
    ELSE ActionOf(Lower(Head(buf)))

(***************************************************************************)
(* Frames                                                                  *)
(***************************************************************************)
Frame(pc, ret) == [pc |-> pc, ret |-> ret, fmt |-> "", res |-> "None"]

Top == frames[Len(frames)]

MainPc == frames[1].pc

InMain == Len(frames) = 1

At(pc) == Top.pc = pc

Goto(pc) == frames' = [frames EXCEPT ![Len(frames)].pc = pc]

Inputs == sigCount + keyCount + exports

Init ==
    /\ steps \in StepLists
    /\ current_step = 0
    /\ session_logs = <<[timestamp |-> 0, event |-> "Session started", step |-> 1,
                         details |-> NoDetails]>>
    /\ is_running = TRUE
    /\ frames = <<Frame("run_automation", "")>>
    /\ action = ""
    /\ desc = <<>>
    /\ error = [msg |-> "", step |-> 0, at |-> 0]
    /\ kbuf = <<>>
    /\ clock = 1
    /\ sigCount = 0
    /\ keyCount = 0
    /\ exports = 0
    /\ cleanup_calls = 0
    /\ content = <<>>
    /\ parsed = NotParsed

(***************************************************************************)
(* The operator's keystrokes.                                              *)
(***************************************************************************)
\* The operator types one keystroke while the action menu waits for one.
KeyPress ==
    /\ InMain /\ At("show_action_menu")
    /\ kbuf = <<>>
    /\ Inputs < MaxInputs
    /\ \E k \in KeyStrokes : kbuf' = k
    /\ keyCount' = keyCount + 1
    /\ UNCHANGED <<steps, current_step, session_logs, is_running, frames, action,
                   desc, error, clock, sigCount, cleanup_calls, exports>>
    /\ UNCHANGED <<content, parsed>>

(***************************************************************************)
(* handle_interrupt                                                        *)
(***************************************************************************)

\* a variant of handle_interrupt that runs the warning and cleanup first and
\* leaves the flag for later
handle_interrupt_flag_not_first ==
    /\ Inputs < MaxInputs
    /\ MainPc # "done"
    /\ sigCount' = sigCount + 1
    /\ frames' = Append(frames, Frame("interrupt_msg", ""))
    /\ UNCHANGED <<steps, current_step, session_logs, is_running, action, desc,
                   error, kbuf, clock, keyCount, exports, cleanup_calls>>
    /\ UNCHANGED <<content, parsed>>

\* a variant of handle_interrupt that toggles the flag
handle_interrupt_toggles ==
    /\ Inputs < MaxInputs
    /\ MainPc # "done"
    /\ sigCount' = sigCount + 1
    /\ is_running' = ~is_running
    /\ frames' = Append(frames, Frame("interrupt_msg", ""))
    /\ UNCHANGED <<steps, current_step, session_logs, action, desc, error, kbuf,
                   clock, keyCount, exports, cleanup_calls>>
    /\ UNCHANGED <<content, parsed>>

\* SIGINT or SIGTERM is delivered, at any point before run_automation has
\* returned: handle_interrupt is entered on top of whatever is running and
\* sets the flag.  (Nothing reads or writes the state between the entry and
\* the assignment, so they are one step.)
handle_interrupt ==
    /\ Inputs < MaxInputs
    /\ MainPc # "done"
    /\ sigCount' = sigCount + 1
    /\ is_running' = FALSE
    /\ frames' = Append(frames, Frame("interrupt_msg", ""))
    /\ UNCHANGED <<steps, current_step, session_logs, action, desc, error, kbuf,
                   clock, keyCount, exports, cleanup_calls>>
    /\ UNCHANGED <<content, parsed>>

handle_interrupt_msg ==
    /\ At("interrupt_msg")
    /\ print_message(<<"\nGracefully shutting down...">>, "warning")
    /\ Goto("cleanup")
    /\ UNCHANGED <<steps, current_step, is_running, action, desc, error, kbuf,
                   sigCount, keyCount, cleanup_calls, exports>>
    /\ UNCHANGED <<content, parsed>>

(***************************************************************************)
(* cleanup, show_export_options, export_logs: run by the main flow and by  *)
(* the handler alike, so they act on the top frame.                        *)
(***************************************************************************)
\* the frame's callee returns: a handler frame is popped, the main flow ends
Return ==
    IF InMain THEN Goto("done") ELSE frames' = SubSeq(frames, 1, Len(frames) - 1)

\* cleanup() is entered; Confirm.ask is answered when the log is not empty
cleanup ==
    /\ At("cleanup")
    /\ cleanup_calls' = cleanup_calls + 1
    /\ IF session_logs # <<>>
       THEN \E yes \in BOOLEAN :
              IF yes
              THEN frames' = [frames EXCEPT ![Len(frames)].pc = "show_export_options",
                                            ![Len(frames)].ret = "cleanup_msg"]
              ELSE Goto("cleanup_msg")
       ELSE Goto("cleanup_msg")
    /\ UNCHANGED <<steps, current_step, session_logs, is_running, action, desc,
                   error, kbuf, clock, sigCount, keyCount, exports>>
    /\ UNCHANGED <<content, parsed>>

cleanup_msg ==
    /\ At("cleanup_msg")
    /\ print_message(<<"Cleanup completed">>, "info")
    /\ Return
    /\ UNCHANGED <<steps, current_step, is_running, action, desc, error, kbuf,
                   sigCount, keyCount, cleanup_calls, exports>>
    /\ UNCHANGED <<content, parsed>>

\* export_logs returns res to show_export_options, which returns to the place
\* it was called from; no caller reads the result
Returned(res) == [pc |-> Top.ret, ret |-> "", fmt |-> "", res |-> res]

LogPath(fmt) ==
    IF fmt = "text" THEN "logs/automation_logs_<timestamp>.txt"
    ELSE "logs/automation_logs_<timestamp>.json"

\* str(e) of the failure of mkdir, open or write
ExportError == "[Errno 13] Permission denied"

\* Prompt.ask answers the format; export_logs' try block then either writes
\* the file or raises
show_export_options ==
    /\ At("show_export_options")
    /\ Inputs < MaxInputs
    /\ exports' = exports + 1
    /\ \E f \in {"text", "json"}, written \in BOOLEAN :
         frames' = [frames EXCEPT
                      ![Len(frames)].fmt = f,
                      ![Len(frames)].pc = IF written THEN "export_ok_msg"
                                          ELSE "export_fail_msg"]
    /\ UNCHANGED <<steps, current_step, session_logs, is_running, action, desc,
                   error, kbuf, clock, sigCount, keyCount, cleanup_calls>>
    /\ UNCHANGED <<content, parsed>>

export_logs_ok_msg ==
    /\ At("export_ok_msg")
    /\ print_message(<<"Logs exported successfully to ", LogPath(Top.fmt)>>, "success")
    /\ Goto("export_ok_log")
    /\ UNCHANGED <<steps, current_step, is_running, action, desc, error, kbuf,
                   sigCount, keyCount, cleanup_calls, exports>>
    /\ UNCHANGED <<content, parsed>>

export_logs_ok_log ==
    /\ At("export_ok_log")
    /\ log_event("Logs exported", [filename |-> LogPath(Top.fmt)])
    /\ frames' = [frames EXCEPT ![Len(frames)] = Returned("True")]
    /\ UNCHANGED <<steps, current_step, is_running, action, desc, error, kbuf,
                   sigCount, keyCount, cleanup_calls, exports>>
    /\ UNCHANGED <<content, parsed>>

\* a variant of export_logs_fail_msg in which export_logs has no except
\* clause: the failure leaves it as an exception
export_logs_fail_raises ==
    /\ At("export_fail_msg")
    /\ InMain
    /\ error' = [msg |-> "[Errno 13] Permission denied", step |-> current_step,
                 at |-> Len(session_logs)]
    /\ Goto("except")
    /\ UNCHANGED <<steps, current_step, session_logs, is_running, action, desc,
                   kbuf, clock, sigCount, keyCount, exports, cleanup_calls>>
    /\ UNCHANGED <<content, parsed>>

export_logs_fail_msg ==
    /\ At("export_fail_msg")
    /\ print_message(<<"Error exporting logs: ", ExportError>>, "error")
    /\ Goto("export_fail_log")
    /\ UNCHANGED <<steps, current_step, is_running, action, desc, error, kbuf,
                   sigCount, keyCount, cleanup_calls, exports>>
    /\ UNCHANGED <<content, parsed>>

export_logs_fail_log ==
    /\ At("export_fail_log")
    /\ log_event("Log export failed", [error |-> ExportError])
    /\ frames' = [frames EXCEPT ![Len(frames)] = Returned("False")]
    /\ UNCHANGED <<steps, current_step, is_running, action, desc, error, kbuf,
                   sigCount, keyCount, cleanup_calls, exports>>
    /\ UNCHANGED <<content, parsed>>

(***************************************************************************)
(* run_automation and run_step: the main flow, frames[1].                  *)
(***************************************************************************)
\* an exception leaves the try block of run_automation for its except clause
Raise(msg) ==
    /\ error' = [msg |-> msg, step |-> current_step, at |-> Len(session_logs)]
    /\ Goto("except")

\* show_keyboard_shortcuts(); time.sleep(2)
run_automation_start ==
    /\ InMain /\ At("run_automation")
    /\ Goto("while")
    /\ UNCHANGED <<steps, current_step, session_logs, is_running, action, desc,
                   error, kbuf, clock, sigCount, keyCount, cleanup_calls, exports>>
    /\ UNCHANGED <<content, parsed>>

\* a variant of LoopCondition that does not read the running flag
LoopCondition_without_flag == current_step < Len(steps)

LoopCondition == current_step < Len(steps) /\ is_running

\* a variant of run_automation_while that keeps testing the condition while
\* steps are left and the flag is down
run_automation_while_spins ==
    /\ InMain /\ At("while")
    /\ IF current_step < Len(steps)
       THEN IF is_running THEN Goto("run_step") ELSE UNCHANGED frames
       ELSE Goto("after_loop")
    /\ UNCHANGED <<steps, current_step, session_logs, is_running, action, desc,
                   error, kbuf, clock, sigCount, keyCount, cleanup_calls, exports>>
    /\ UNCHANGED <<content, parsed>>

\* while self.current_step < len(steps) and self.is_running
run_automation_while ==
    /\ InMain /\ At("while")
    /\ IF LoopCondition THEN Goto("run_step") ELSE Goto("after_loop")
    /\ UNCHANGED <<steps, current_step, session_logs, is_running, action, desc,
                   error, kbuf, clock, sigCount, keyCount, cleanup_calls, exports>>
    /\ UNCHANGED <<content, parsed>>

CurrentStep == steps[current_step + 1]

\* a variant of run_step_header that shows the header without logging it
run_step_header_unlogged ==
    /\ InMain /\ At("run_step")
    /\ Goto("step_started")
    /\ UNCHANGED <<steps, current_step, session_logs, is_running, action, desc,
                   error, kbuf, clock, sigCount, keyCount, exports, cleanup_calls>>
    /\ UNCHANGED <<content, parsed>>

\* run_step: console.clear(); display_header()
run_step_header ==
    /\ InMain /\ At("run_step")
    /\ log_event("Header displayed", NoDetails)
    /\ Goto("step_started")
    /\ UNCHANGED <<steps, current_step, is_running, action, desc, error, kbuf,
                   sigCount, keyCount, cleanup_calls, exports>>
    /\ UNCHANGED <<content, parsed>>

\* a variant of run_step_started that opens the action menu without running
\* the progress display
run_step_started_without_progress ==
    /\ InMain /\ At("step_started")
    /\ log_event("Step started", [step_title |-> CurrentStep.title,
                                  step_status |-> CurrentStep.status])
    /\ desc' = <<"Running ", CurrentStep.title, "...">>
    /\ Goto("show_action_menu")
    /\ UNCHANGED <<steps, current_step, is_running, action, error, kbuf,
                   sigCount, keyCount, cleanup_calls, exports>>
    /\ UNCHANGED <<content, parsed>>

\* log "Step started", print the step panel, call display_progress
run_step_started ==
    /\ InMain /\ At("step_started")
    /\ log_event("Step started", [step_title |-> CurrentStep.title,
                                  step_status |-> CurrentStep.status])
    /\ desc' = <<"Running ", CurrentStep.title, "...">>
    /\ Goto("display_progress")
    /\ UNCHANGED <<steps, current_step, is_running, action, error, kbuf,
                   sigCount, keyCount, cleanup_calls, exports>>
    /\ UNCHANGED <<content, parsed>>

display_progress_start ==
    /\ InMain /\ At("display_progress")
    /\ log_event("Progress started", [description |-> desc])
    /\ Goto("progress_running")
    /\ UNCHANGED <<steps, current_step, is_running, action, desc, error, kbuf,
                   sigCount, keyCount, cleanup_calls, exports>>
    /\ UNCHANGED <<content, parsed>>

\* str(e) of a failure of the progress display
ProgressError == "progress failed"

\* the body of the `with Progress(...)` block: it ends, or it raises
display_progress_run ==
    /\ InMain /\ At("progress_running")
    /\ \E raised \in BOOLEAN :
         IF raised THEN Raise(ProgressError)
         ELSE Goto("progress_completed") /\ UNCHANGED error
    /\ UNCHANGED <<steps, current_step, session_logs, is_running, action, desc,
                   kbuf, clock, sigCount, keyCount, cleanup_calls, exports>>
    /\ UNCHANGED <<content, parsed>>

display_progress_done ==
    /\ InMain /\ At("progress_completed")
    /\ log_event("Progress completed", [description |-> desc])
    /\ Goto("show_action_menu")
    /\ UNCHANGED <<steps, current_step, is_running, action, desc, error, kbuf,
                   sigCount, keyCount, cleanup_calls, exports>>
    /\ UNCHANGED <<content, parsed>>

\* str(e) of the UnicodeDecodeError of bytes.decode
DecodeError == "'utf-8' codec can't decode byte"

\* one pass of show_action_menu's loop with a key pending: getch() takes one
\* byte; no action: sleep and poll again; an action: log it and return it
show_action_menu ==
    /\ InMain /\ At("show_action_menu")
    /\ kbuf # <<>>
    /\ kbuf' = Tail(kbuf)
    /\ LET a == check_keyboard_input(kbuf) IN
         CASE a = "raise" ->
                /\ Raise(DecodeError)
                /\ UNCHANGED <<session_logs, clock, action>>
           [] a = "None" ->
                UNCHANGED <<frames, session_logs, clock, action, error>>
           [] OTHER ->
                /\ log_event("Action selected", [action |-> a])
                /\ action' = a
                /\ Goto("dispatch")
                /\ UNCHANGED error
    /\ UNCHANGED <<steps, current_step, is_running, desc, sigCount, keyCount,
                   cleanup_calls, exports>>
    /\ UNCHANGED <<content, parsed>>

\* action == "proceed"
run_step_proceed ==
    /\ InMain /\ At("dispatch") /\ action = "proceed"
    /\ print_message(<<"Step '", CurrentStep.title, "' completed">>, "success")
    /\ Goto("step_completed")
    /\ UNCHANGED <<steps, current_step, is_running, action, desc, error, kbuf,
                   sigCount, keyCount, cleanup_calls, exports>>
    /\ UNCHANGED <<content, parsed>>

\* log "Step completed"; return True
run_step_completed ==
    /\ InMain /\ At("step_completed")
    /\ log_event("Step completed", [step_title |-> CurrentStep.title])
    /\ Goto("increment")
    /\ UNCHANGED <<steps, current_step, is_running, action, desc, error, kbuf,
                   sigCount, keyCount, cleanup_calls, exports>>
    /\ UNCHANGED <<content, parsed>>

\* a variant of run_automation_increment that counts the step only while the
\* session is still running
run_automation_increment_if_running ==
    /\ InMain /\ At("increment")
    /\ current_step' = IF is_running THEN current_step + 1 ELSE current_step
    /\ Goto("while")
    /\ UNCHANGED <<steps, session_logs, is_running, action, desc, error, kbuf,
                   clock, sigCount, keyCount, exports, cleanup_calls>>
    /\ UNCHANGED <<content, parsed>>

\* a variant of run_automation_increment that skips a step
run_automation_increment_by_two ==
    /\ InMain /\ At("increment")
    /\ current_step' = current_step + 2
    /\ Goto("while")
    /\ UNCHANGED <<steps, session_logs, is_running, action, desc, error, kbuf,
                   clock, sigCount, keyCount, exports, cleanup_calls>>
    /\ UNCHANGED <<content, parsed>>

\* if self.run_step(step): self.current_step += 1
run_automation_increment ==
    /\ InMain /\ At("increment")
    /\ current_step' = current_step + 1
    /\ Goto("while")
    /\ UNCHANGED <<steps, session_logs, is_running, action, desc, error, kbuf,
                   clock, sigCount, keyCount, cleanup_calls, exports>>
    /\ UNCHANGED <<content, parsed>>

\* action == "retry"
run_step_retry ==
    /\ InMain /\ At("dispatch") /\ action = "retry"
    /\ print_message(<<"Retrying step...">>, "warning")
    /\ Goto("step_retry")
    /\ UNCHANGED <<steps, current_step, is_running, action, desc, error, kbuf,
                   sigCount, keyCount, cleanup_calls, exports>>
    /\ UNCHANGED <<content, parsed>>

\* a variant of run_step_retry_log that runs the whole step again
run_step_retry_restarts ==
    /\ InMain /\ At("step_retry")
    /\ log_event("Step retry", [step_title |-> steps[current_step + 1].title])
    /\ UNCHANGED desc
    /\ Goto("run_step")
    /\ UNCHANGED <<steps, current_step, is_running, action, error, kbuf,
                   sigCount, keyCount, exports, cleanup_calls>>
    /\ UNCHANGED <<content, parsed>>

\* log "Step retry", call display_progress
run_step_retry_log ==
    /\ InMain /\ At("step_retry")
    /\ log_event("Step retry", [step_title |-> CurrentStep.title])
    /\ desc' = <<"Retrying operation...">>
    /\ Goto("display_progress")
    /\ UNCHANGED <<steps, current_step, is_running, action, error, kbuf,
                   sigCount, keyCount, cleanup_calls, exports>>
    /\ UNCHANGED <<content, parsed>>

\* action == "help": display_help
run_step_help ==
    /\ InMain /\ At("dispatch") /\ action = "help"
    /\ log_event("Help displayed", [step_title |-> CurrentStep.title])
    /\ Goto("show_action_menu")
    /\ UNCHANGED <<steps, current_step, is_running, action, desc, error, kbuf,
                   sigCount, keyCount, cleanup_calls, exports>>
    /\ UNCHANGED <<content, parsed>>

\* action == "logs": show_export_options, then back to the menu
run_step_logs ==
    /\ InMain /\ At("dispatch") /\ action = "logs"
    /\ frames' = [frames EXCEPT ![1].pc = "show_export_options",
                                ![1].ret = "show_action_menu"]
    /\ UNCHANGED <<steps, current_step, session_logs, is_running, action, desc,
                   error, kbuf, clock, sigCount, keyCount, cleanup_calls, exports>>
    /\ UNCHANGED <<content, parsed>>

\* a variant of run_step_exit that leaves the step when the operator declines
run_step_exit_unconfirmed ==
    /\ InMain /\ At("dispatch") /\ action = "exit"
    /\ \E yes \in BOOLEAN :
         IF yes THEN Goto("exit_msg") ELSE Goto("after_loop")
    /\ UNCHANGED <<steps, current_step, session_logs, is_running, action, desc,
                   error, kbuf, clock, sigCount, keyCount, cleanup_calls, exports>>
    /\ UNCHANGED <<content, parsed>>

\* action == "exit": Confirm.ask
run_step_exit ==
    /\ InMain /\ At("dispatch") /\ action = "exit"
    /\ \E yes \in BOOLEAN :
         IF yes THEN Goto("exit_msg") ELSE Goto("show_action_menu")
    /\ UNCHANGED <<steps, current_step, session_logs, is_running, action, desc,
                   error, kbuf, clock, sigCount, keyCount, cleanup_calls, exports>>
    /\ UNCHANGED <<content, parsed>>

run_step_exit_msg ==
    /\ InMain /\ At("exit_msg")
    /\ print_message(<<"Session terminated by user">>, "warning")
    /\ Goto("exit_log")
    /\ UNCHANGED <<steps, current_step, is_running, action, desc, error, kbuf,
                   sigCount, keyCount, cleanup_calls, exports>>
    /\ UNCHANGED <<content, parsed>>

\* log "Session terminated by user"; return False; break
run_step_exit_log ==
    /\ InMain /\ At("exit_log")
    /\ log_event("Session terminated by user", NoDetails)
    /\ Goto("after_loop")
    /\ UNCHANGED <<steps, current_step, is_running, action, desc, error, kbuf,
                   sigCount, keyCount, cleanup_calls, exports>>
    /\ UNCHANGED <<content, parsed>>

\* action == "summary": no branch of the if/elif chain takes it
run_step_summary ==
    /\ InMain /\ At("dispatch") /\ action = "summary"
    /\ Goto("show_action_menu")
    /\ UNCHANGED <<steps, current_step, session_logs, is_running, action, desc,
                   error, kbuf, clock, sigCount, keyCount, cleanup_calls, exports>>
    /\ UNCHANGED <<content, parsed>>

\* a variant of run_automation_after_loop that logs the completion whatever
\* the step index is
run_automation_after_loop_unconditional ==
    /\ InMain /\ At("after_loop")
    /\ log_event("Automation completed", [total_steps |-> Len(steps)])
    /\ Goto("completed_msg")
    /\ UNCHANGED <<steps, current_step, is_running, action, desc, error, kbuf,
                   sigCount, keyCount, cleanup_calls, exports>>
    /\ UNCHANGED <<content, parsed>>

\* if self.current_step >= len(steps): log "Automation completed"
run_automation_after_loop ==
    /\ InMain /\ At("after_loop")
    /\ IF current_step >= Len(steps)
       THEN /\ log_event("Automation completed", [total_steps |-> Len(steps)])
            /\ Goto("completed_msg")
       ELSE /\ Goto("cleanup")
            /\ UNCHANGED <<session_logs, clock>>
    /\ UNCHANGED <<steps, current_step, is_running, action, desc, error, kbuf,
                   sigCount, keyCount, cleanup_calls, exports>>
    /\ UNCHANGED <<content, parsed>>

run_automation_completed_msg ==
    /\ InMain /\ At("completed_msg")
    /\ print_message(<<"Automation completed successfully!">>, "success")
    /\ Goto("completed_ask")
    /\ UNCHANGED <<steps, current_step, is_running, action, desc, error, kbuf,
                   sigCount, keyCount, cleanup_calls, exports>>
    /\ UNCHANGED <<content, parsed>>

\* Confirm.ask("Would you like to export the session logs?")
run_automation_completed_ask ==
    /\ InMain /\ At("completed_ask")
    /\ \E yes \in BOOLEAN :
         IF yes
         THEN frames' = [frames EXCEPT ![1].pc = "show_export_options",
                                       ![1].ret = "cleanup"]
         ELSE Goto("cleanup")
    /\ UNCHANGED <<steps, current_step, session_logs, is_running, action, desc,
                   error, kbuf, clock, sigCount, keyCount, cleanup_calls, exports>>
    /\ UNCHANGED <<content, parsed>>

\* except Exception as e: print_message
run_automation_except ==
    /\ InMain /\ At("except")
    /\ print_message(<<"Unexpected error: ", error.msg>>, "error")
    /\ Goto("except_log")
    /\ UNCHANGED <<steps, current_step, is_running, action, desc, error, kbuf,
                   sigCount, keyCount, cleanup_calls, exports>>
    /\ UNCHANGED <<content, parsed>>

\* a variant of run_automation_except_log that swallows the failure inside
\* the loop and goes on with it
run_automation_except_log_resumes ==
    /\ InMain /\ At("except_log")
    /\ log_event("Error occurred", [error |-> error.msg])
    /\ Goto("while")
    /\ UNCHANGED <<steps, current_step, is_running, action, desc, error, kbuf,
                   sigCount, keyCount, exports, cleanup_calls>>
    /\ UNCHANGED <<content, parsed>>

\* log "Error occurred"; finally: cleanup()
run_automation_except_log ==
    /\ InMain /\ At("except_log")
    /\ log_event("Error occurred", [error |-> error.msg])
    /\ Goto("cleanup")
    /\ UNCHANGED <<steps, current_step, is_running, action, desc, error, kbuf,
                   sigCount, keyCount, cleanup_calls, exports>>
    /\ UNCHANGED <<content, parsed>>

Next ==
    \/ KeyPress
    \/ handle_interrupt
    \/ handle_interrupt_msg
    \/ cleanup
    \/ cleanup_msg
    \/ show_export_options
    \/ export_logs_ok_msg
    \/ export_logs_ok_log
    \/ export_logs_fail_msg
    \/ export_logs_fail_log
    \/ run_automation_start
    \/ run_automation_while
    \/ run_step_header
    \/ run_step_started
    \/ display_progress_start
    \/ display_progress_run
    \/ display_progress_done
    \/ show_action_menu
    \/ run_step_proceed
    \/ run_step_completed
    \/ run_automation_increment
    \/ run_step_retry
    \/ run_step_retry_log
    \/ run_step_help
    \/ run_step_logs
    \/ run_step_exit
    \/ run_step_exit_msg
    \/ run_step_exit_log
    \/ run_step_summary
    \/ run_automation_after_loop
    \/ run_automation_completed_msg
    \/ run_automation_completed_ask
    \/ run_automation_except
    \/ run_automation_except_log

Spec == Init /\ [][Next]_vars

(***************************************************************************)
(* Reading the log.                                                        *)
(***************************************************************************)
LogIndexes == 1..Len(session_logs)

EventAt(i) == session_logs[i].event

Logged(event) == \E i \in LogIndexes : EventAt(i) = event

\* the index of the last entry with this event, 0 when there is none
LastIndexOf(event) ==
    IF Logged(event)
    THEN CHOOSE i \in LogIndexes :
           /\ EventAt(i) = event
           /\ \A j \in LogIndexes : EventAt(j) = event => j <= i
    ELSE 0

\* how many entries after index i carry this event
CountAfter(i, event) ==
    Cardinality({j \in LogIndexes : j > i /\ EventAt(j) = event})

\* an entry without its timestamp
Stripped(e) == [event |-> e.event, step |-> e.step, details |-> e.details]

\* the program positions of the main flow that lie inside the while loop
LoopPcs ==
    {"while", "run_step", "step_started", "display_progress", "progress_running",
     "progress_completed", "show_action_menu", "dispatch", "step_completed",
     "increment", "step_retry", "exit_msg", "exit_log"}

(***************************************************************************)
(* C1: current_step never decreases and never skips a value: every change  *)
(* is an increment by exactly 1, made by the main flow right after         *)
(* run_step returned True, that is after the operator selected "proceed"   *)
(* on the step at the old index and "Step completed" was logged for it.    *)
(***************************************************************************)
C1_StepIndexAdvancesByOne ==
    [][current_step' # current_step =>
         /\ current_step' = current_step + 1
         /\ InMain /\ At("increment") /\ action = "proceed"
         /\ \E i, j \in LogIndexes :
              /\ i < j
              /\ EventAt(i) = "Action selected"
              /\ session_logs[i].details.action = "proceed"
              /\ session_logs[i].step = current_step + 1
              /\ EventAt(j) = "Step completed"
              /\ session_logs[j].step = current_step + 1
              /\ CountAfter(j, "Action selected") = 0]_vars

\* both steps of a two-step list have been completed
C1_Witness == Len(steps) = 2 /\ current_step = 2 /\ MainPc = "while"

(***************************************************************************)
(* C2: in a run with at most one signal delivered, cleanup executes        *)
(* exactly once, whichever way the run ends: it is never entered a second  *)
(* time, and it has been entered when run_automation returns.              *)
(***************************************************************************)
C2_CleanupExactlyOnce ==
    sigCount <= 1 =>
        /\ cleanup_calls <= 1
        /\ MainPc = "done" => cleanup_calls = 1

(***************************************************************************)
(* C3: a two-step list, "proceed" on step 1 and on step 2, no signal and   *)
(* no failure.                                                             *)
(***************************************************************************)
OnlyProceedSelected ==
    \A i \in LogIndexes :
        EventAt(i) = "Action selected" => session_logs[i].details.action = "proceed"

C3_Scenario ==
    /\ Len(steps) = 2
    /\ sigCount = 0
    /\ error.msg = ""
    /\ OnlyProceedSelected
    /\ Logged("Automation completed")

\* what run_automation has logged up to "Automation completed"; the first
\* entry of the log, "Session started", is the constructor's
C3_RunEntries ==
    [i \in 1..(LastIndexOf("Automation completed") - 1) |->
        Stripped(session_logs[i + 1])]

C3_RunEvents == [i \in DOMAIN C3_RunEntries |-> C3_RunEntries[i].event]

C3_ClaimedStepEvents ==
    <<"Step started", "Progress started", "Progress completed", "Action selected",
      "Step completed">>

\* C3 as claimed: the run logs exactly the five events of step 1, the five
\* of step 2 and "Automation completed", and no other event between them.
C3_ExactlyFiveEventsPerStep ==
    C3_Scenario =>
        C3_RunEvents = C3_ClaimedStepEvents \o C3_ClaimedStepEvents
                         \o <<"Automation completed">>

\* the entries run_step logs for the k-th step when "proceed" is selected
C3_StepEntries(k) ==
    LET t == steps[k].title IN
    <<[event |-> "Header displayed", step |-> k, details |-> NoDetails],
      [event |-> "Step started", step |-> k,
       details |-> [step_title |-> t, step_status |-> steps[k].status]],
      [event |-> "Progress started", step |-> k,
       details |-> [description |-> <<"Running ", t, "...">>]],
      [event |-> "Progress completed", step |-> k,
       details |-> [description |-> <<"Running ", t, "...">>]],
      [event |-> "Action selected", step |-> k, details |-> [action |-> "proceed"]],
      [event |-> "Message displayed", step |-> k,
       details |-> [message |-> <<"Step '", t, "' completed">>, level |-> "success"]],
      [event |-> "Step completed", step |-> k, details |-> [step_title |-> t]]>>

\* C3 as amended: the run logs, for each step in turn, "Header displayed",
\* "Step started", "Progress started", "Progress completed",
\* "Action selected"(proceed), "Message displayed"(success) and
\* "Step completed", then "Automation completed" with total_steps = 2, and
\* nothing else between them.
C3_SevenEventsPerStep ==
    C3_Scenario =>
        C3_RunEntries = C3_StepEntries(1) \o C3_StepEntries(2)
                          \o <<[event |-> "Automation completed", step |-> 3,
                                details |-> [total_steps |-> 2]]>>

C3_Witness == C3_Scenario /\ MainPc = "done"

(***************************************************************************)
(* C4: a confirmed exit on the step at index k.                            *)
(***************************************************************************)
Terminated == "Session terminated by user"

\* the index of the "Session terminated by user" event in the log
C4_ExitIndex == LastIndexOf(Terminated)

\* C4 as claimed: after a confirmed exit on the step at index k,
\* current_step stays k, no later "Step started" is logged, and whenever
\* cleanup begins "Session terminated by user" is the last or the
\* second-to-last event of the log.
C4_ExitLastOrSecondToLast ==
    Logged(Terminated) =>
        /\ current_step = session_logs[C4_ExitIndex].step - 1
        /\ CountAfter(C4_ExitIndex, "Step started") = 0
        /\ At("cleanup") => C4_ExitIndex >= Len(session_logs) - 1

(***************************************************************************)
(* C5: no step is started once the running flag is false.                  *)
(***************************************************************************)
\* C5 as claimed: wherever a signal falls, run_step is called and "Step
\* started" is logged only in a state where current_step < len(steps) and
\* is_running is true.
C5_StepStartsOnlyWhileRunning ==
    (InMain /\ MainPc \in {"run_step", "step_started"}) =>
        (current_step < Len(steps) /\ is_running)

\* C5 as amended: run_step is called only from the loop test, and only when
\* that test found current_step < len(steps) and is_running true;
\* current_step < len(steps) holds throughout the step.  The flag is not
\* read again before the step starts.
C5_StepStartsOnlyAfterLoopTest ==
    /\ [](MainPc \in (LoopPcs \ {"while"}) => current_step < Len(steps))
    /\ [][(MainPc' = "run_step" /\ MainPc # "run_step") =>
             /\ InMain /\ MainPc = "while"
             /\ current_step < Len(steps) /\ is_running]_vars
    /\ [][(InMain /\ MainPc = "while" /\ ~is_running /\ MainPc' # "while")
             => MainPc' = "after_loop"]_vars

\* the loop has ended on the flag alone: steps remain, no exit, no failure
C5_Witness ==
    /\ MainPc = "after_loop" /\ ~is_running /\ current_step < Len(steps)
    /\ ~Logged(Terminated) /\ error.msg = ""

\* the bytes of the six mapped keys, lower and upper case
C6_MappedBytes ==
    {KEY_ENTER, KEY_h, KEY_q, KEY_l, KEY_r, KEY_s}
        \cup {k - 32 : k \in {KEY_h, KEY_q, KEY_l, KEY_r, KEY_s}}

(***************************************************************************)
(* C6: a keystroke that is none of Enter, h, q, l, r, s in either case     *)
(* (an arrow key included) produces no action, appends no log entry,       *)
(* raises no error, and leaves the step waiting in its action menu.        *)
(***************************************************************************)
C6_UnmappedKeyIgnored ==
    [][(/\ InMain /\ At("show_action_menu")
        /\ kbuf # <<>> /\ kbuf' = Tail(kbuf)
        /\ Head(kbuf) \notin C6_MappedBytes)
         => /\ session_logs' = session_logs
            /\ action' = action
            /\ error' = error
            /\ frames' = frames]_vars

C7_FailPcs == {"export_fail_msg", "export_fail_log"}

\* a step taken by the frame that runs the failing export
C7_ExportStep == Len(frames') = Len(frames) /\ frames' # frames

(***************************************************************************)
(* C7: when an export cannot write its destination, export_logs returns    *)
(* False instead of raising, "Log export failed" is logged with the error  *)
(* text, and the session continues: the export changes neither is_running  *)
(* nor current_step, and the step that asked for it is back in its action  *)
(* loop.                                                                   *)
(***************************************************************************)
C7_ExportFailureIsContained ==
    [][(Top.pc \in C7_FailPcs /\ C7_ExportStep) =>
         /\ is_running' = is_running
         /\ current_step' = current_step
         /\ error' = error
         /\ Top.pc = "export_fail_msg" => Top'.pc = "export_fail_log"
         /\ Top.pc = "export_fail_log" =>
              /\ Top'.pc = Top.ret /\ Top'.res = "False"
              /\ session_logs' = Append(session_logs,
                    [timestamp |-> clock, event |-> "Log export failed",
                     step |-> current_step + 1,
                     details |-> [error |-> ExportError]])
              /\ (InMain /\ action = "logs" /\ error.msg = "")
                    => MainPc' = "show_action_menu"]_vars

\* the export asked for with 'l' failed and the step, still running, is back
\* in its menu
C7_Witness ==
    /\ InMain /\ At("show_action_menu") /\ action = "logs"
    /\ EventAt(Len(session_logs)) = "Log export failed"
    /\ is_running /\ current_step = 0 /\ error.msg = ""

(***************************************************************************)
(* C8: a failure raised by display_progress does not propagate past        *)
(* run_step: it never reaches the except clause of run_automation.         *)
(***************************************************************************)
C8_ProgressFailureStaysInStep ==
    ~(MainPc = "except" /\ error.msg = ProgressError)

(***************************************************************************)
(* C9: a failure raised while the step at index k runs is caught by        *)
(* run_automation: "Error occurred" is logged with the message,            *)
(* current_step stays k, the main flow is out of the loop, no later        *)
(* "Step started" and no "Automation completed" is logged, and cleanup has *)
(* run to its end when run_automation returns.                             *)
(***************************************************************************)
C9_FailureIsCaught ==
    error.msg # "" =>
        /\ current_step = error.step
        /\ MainPc \notin LoopPcs \cup {"after_loop", "completed_msg", "completed_ask"}
        /\ \A i \in LogIndexes :
              i > error.at => EventAt(i) # "Step started"
        /\ ~Logged("Automation completed")
        /\ MainPc \notin {"except", "except_log"} =>
              \E i \in LogIndexes :
                  /\ i > error.at
                  /\ EventAt(i) = "Error occurred"
                  /\ session_logs[i].details = [error |-> error.msg]
                  /\ session_logs[i].step = error.step + 1
        /\ MainPc = "done" =>
              /\ cleanup_calls >= 1
              /\ EventAt(Len(session_logs)) = "Message displayed"
              /\ session_logs[Len(session_logs)].details.message
                   = <<"Cleanup completed">>
              /\ LastIndexOf("Error occurred") < Len(session_logs)

\* a failure in the second step, and run_automation has returned
C9_Witness == error.msg # "" /\ error.step = 1 /\ MainPc = "done"

C10_RetryIndex == LastIndexOf("Action selected")

C10_RetryPcs ==
    {"dispatch", "step_retry", "display_progress", "progress_running",
     "progress_completed", "show_action_menu"}

(***************************************************************************)
(* C10: "retry" on a step logs one new "Progress started" / "Progress      *)
(* completed" pair, leaves current_step unchanged, logs no further "Step   *)
(* started", and returns the step to its action menu.                      *)
(***************************************************************************)
C10_RetryRerunsProgressOnly ==
    (action = "retry" /\ error.msg = "") =>
        /\ session_logs[C10_RetryIndex].details.action = "retry"
        /\ current_step = session_logs[C10_RetryIndex].step - 1
        /\ CountAfter(C10_RetryIndex, "Step started") = 0
        /\ CountAfter(C10_RetryIndex, "Header displayed") = 0
        /\ MainPc \in C10_RetryPcs
        /\ MainPc = "show_action_menu" =>
              /\ CountAfter(C10_RetryIndex, "Progress started") = 1
              /\ CountAfter(C10_RetryIndex, "Progress completed") = 1
              /\ CountAfter(C10_RetryIndex, "Step retry") = 1
              /\ LastIndexOf("Progress started") < LastIndexOf("Progress completed")
              /\ session_logs[LastIndexOf("Progress completed")].details
                   = [description |-> <<"Retrying operation...">>]

\* the retry is over and the step waits in its menu again
C10_Witness == InMain /\ At("show_action_menu") /\ action = "retry"


WarningMessage == <<"\nGracefully shutting down...">>

\* the entries that carry this message
MessageIndexes(message) ==
    {i \in LogIndexes : /\ EventAt(i) = "Message displayed"
                        /\ session_logs[i].details.message = message}

\* the handler frames that have not yet emitted their warning
C11_FramesBeforeWarning ==
    {k \in 2..Len(frames) : frames[k].pc = "interrupt_msg"}

(***************************************************************************)
(* C11: handle_interrupt sets is_running to false, then emits the warning, *)
(* then runs cleanup to its end, all before the interrupted flow resumes:  *)
(* is_running is false in every state in which a handler runs, every       *)
(* handler past its first statement has logged its warning, a handler      *)
(* returns only from the end of cleanup, and no frame below the running    *)
(* handler moves.                                                          *)
(***************************************************************************)
C11_HandlerOrder ==
    /\ [](Len(frames) > 1 => ~is_running)
    /\ [](Cardinality(MessageIndexes(WarningMessage))
            = sigCount - Cardinality(C11_FramesBeforeWarning))
    /\ [][Len(frames') < Len(frames) =>
            /\ Top.pc = "cleanup_msg"
            /\ Len(frames') = Len(frames) - 1
            /\ session_logs'[Len(session_logs')].details.message
                 = <<"Cleanup completed">>]_vars
    /\ [][Len(frames) > 1 =>
            \A k \in 1..(Len(frames) - 1) : frames'[k] = frames[k]]_vars

\* a handler is in its cleanup while the main flow waits inside a step
C11_Witness ==
    /\ Len(frames) = 2 /\ At("cleanup_msg")
    /\ MainPc = "show_action_menu" /\ ~is_running

(***************************************************************************)
(* C12: is_running is true at construction, changes only from true to      *)
(* false (so at most once), never from false back to true; a signal        *)
(* received when it is already false leaves it false.                      *)
(***************************************************************************)
C12_RunningFlagFallsOnce ==
    /\ is_running = TRUE
    /\ [][is_running' # is_running => (is_running /\ ~is_running')]_vars
    /\ [][(sigCount' = sigCount + 1 /\ ~is_running) => ~is_running']_vars

\* a second signal has been delivered
C12_Witness == sigCount = 2 /\ ~is_running

(***************************************************************************)
(* C13: session_logs is append-only: every step leaves it unchanged or     *)
(* appends entries at its end; no entry is removed, reordered, merged or   *)
(* modified.                                                               *)
(***************************************************************************)
C13_LogIsAppendOnly ==
    [][/\ Len(session_logs') >= Len(session_logs)
       /\ SubSeq(session_logs', 1, Len(session_logs)) = session_logs]_vars

\* two entries with the same event follow one another in the log
C13_Witness ==
    \E i \in LogIndexes : i > 1 /\ EventAt(i) = EventAt(i - 1)

(***************************************************************************)
(* C14: "Automation completed" is logged at most once, only with           *)
(* current_step = len(steps), after every step of the list has logged its  *)
(* "Step completed", with total_steps = len(steps); never in a run with a  *)
(* confirmed exit or with a failure caught by run_automation.              *)
(***************************************************************************)
C14_CompletedOnlyAfterAllSteps ==
    LET done == LastIndexOf("Automation completed") IN
    /\ CountAfter(0, "Automation completed") <= 1
    /\ Logged("Automation completed") =>
          /\ current_step = Len(steps)
          /\ session_logs[done].details = [total_steps |-> Len(steps)]
          /\ \A k \in 1..Len(steps) :
                \E i \in 1..(done - 1) :
                    /\ EventAt(i) = "Step completed"
                    /\ session_logs[i].step = k
                    /\ session_logs[i].details.step_title = steps[k].title
          /\ ~Logged(Terminated)
          /\ ~Logged("Error occurred")
          /\ error.msg = ""
    /\ (Logged(Terminated) \/ error.msg # "") => ~Logged("Automation completed")

\* a two-step run has completed
C14_Witness ==
    Len(steps) = 2 /\ Logged("Automation completed") /\ MainPc = "done"

\* the indexes of the entries with this event, in log order
IndexesOf(event) == {i \in LogIndexes : EventAt(i) = event}

\* how many entries with this event lie at or before index i
RankOf(i, event) == Cardinality({j \in IndexesOf(event) : j <= i})

(***************************************************************************)
(* C15: every log entry is stamped with step = current_step + 1 as it is   *)
(* when the entry is appended; the "Step started" and the "Step completed" *)
(* entries of the k-th step both carry step k.                             *)
(***************************************************************************)
C15_EntriesCarryOneBasedStep ==
    /\ [][Len(session_logs') > Len(session_logs) =>
            /\ session_logs'[Len(session_logs')].step = current_step + 1
            /\ current_step' = current_step]_vars
    /\ [](\A i \in LogIndexes :
            /\ session_logs[i].step >= 1
            /\ EventAt(i) = "Step started" =>
                 session_logs[i].step = RankOf(i, "Step started")
            /\ EventAt(i) = "Step completed" =>
                 /\ session_logs[i].step = RankOf(i, "Step completed")
                 /\ session_logs[i].step = RankOf(i, "Step started"))

\* the second step has logged its start and its completion
C15_Witness ==
    \E i, j \in LogIndexes :
        /\ i < j
        /\ EventAt(i) = "Step started" /\ session_logs[i].step = 2
        /\ EventAt(j) = "Step completed" /\ session_logs[j].step = 2


\* the main flow's export pcs
ExportPcs ==
    {"show_export_options", "export_ok_msg", "export_ok_log",
     "export_fail_msg", "export_fail_log"}

\* the "Action selected" entry of the action being handled
C17_SelectedIndex == LastIndexOf("Action selected")

(***************************************************************************)
(* C17: "help", "logs", "summary" and a declined "exit" leave current_step *)
(* and is_running unchanged, log neither "Step completed" nor "Session     *)
(* terminated by user", and return the step to its action menu; run_step   *)
(* does not return on any of them.                                         *)
(***************************************************************************)
C17_NonTerminalActionsStayInStep ==
    /\ []((action \in {"help", "logs", "summary"} /\ error.msg = "") =>
            /\ session_logs[C17_SelectedIndex].details.action = action
            /\ current_step = session_logs[C17_SelectedIndex].step - 1
            /\ CountAfter(C17_SelectedIndex, "Step completed") = 0
            /\ CountAfter(C17_SelectedIndex, Terminated) = 0
            /\ \/ MainPc \in {"dispatch", "show_action_menu"}
               \/ /\ action = "logs" /\ MainPc \in ExportPcs
                  /\ frames[1].ret = "show_action_menu")
    /\ []((action = "exit" /\ error.msg = "" /\ MainPc = "show_action_menu") =>
            /\ current_step = session_logs[C17_SelectedIndex].step - 1
            /\ CountAfter(C17_SelectedIndex, "Step completed") = 0
            /\ CountAfter(C17_SelectedIndex, Terminated) = 0)
    /\ [][(InMain /\ At("dispatch") /\ MainPc' # MainPc
             /\ action \in {"help", "logs", "summary", "exit"}) =>
            /\ is_running' = is_running
            /\ current_step' = current_step
            /\ action \in {"help", "summary"} => MainPc' = "show_action_menu"
            /\ action = "logs" =>
                 MainPc' = "show_export_options" /\ frames'[1].ret = "show_action_menu"
            /\ action = "exit" =>
                 \/ MainPc' = "exit_msg"
                 \/ MainPc' = "show_action_menu" /\ session_logs' = session_logs]_vars
    /\ [][(InMain /\ MainPc \in ExportPcs /\ frames[1].ret = "show_action_menu"
             /\ frames'[1] # frames[1]) =>
            /\ is_running' = is_running
            /\ current_step' = current_step
            /\ MainPc' \in ExportPcs \cup {"show_action_menu"}]_vars

\* help and summary were handled and an exit was declined: the step waits in
\* its menu
C17_Witness ==
    /\ InMain /\ At("show_action_menu") /\ action = "exit" /\ kbuf = <<>>
    /\ Logged("Help displayed")
    /\ \E i \in LogIndexes :
          EventAt(i) = "Action selected" /\ session_logs[i].details.action = "summary"

\* the action of the last "Action selected" entry before index i, "" if none
SelectedBefore(i) ==
    LET sel == {j \in 1..(i - 1) : EventAt(j) = "Action selected"} IN
    IF sel = {} THEN ""
    ELSE session_logs[CHOOSE j \in sel : \A m \in sel : m <= j].details.action

\* some entry before index i carries this event and this step number
LoggedBefore(i, event, k) ==
    \E j \in 1..(i - 1) : EventAt(j) = event /\ session_logs[j].step = k

(***************************************************************************)
(* C18: within each step "Step started" is logged once, then "Progress     *)
(* started" and "Progress completed" before the first "Action selected" of *)
(* that step; every dispatch is preceded by an "Action selected" entry     *)
(* naming the action; "Step completed" is logged at most once per step and *)
(* only after an "Action selected" with action "proceed" for that step.    *)
(***************************************************************************)
C18_StepEventsFollowStateMachine ==
    /\ \A i \in LogIndexes :
          LET event == EventAt(i)
              k == session_logs[i].step
          IN CASE event = "Step started" -> ~LoggedBefore(i, "Step started", k)
               [] event \in {"Progress started", "Progress completed"} ->
                    LoggedBefore(i, "Step started", k)
               [] event = "Action selected" ->
                    \E c \in 1..(i - 1) :
                        /\ EventAt(c) = "Progress completed"
                        /\ session_logs[c].step = k
                        /\ \E b \in 1..(c - 1) :
                              /\ EventAt(b) = "Progress started"
                              /\ session_logs[b].step = k
                              /\ LoggedBefore(b, "Step started", k)
               [] event = "Step completed" ->
                    /\ ~LoggedBefore(i, "Step completed", k)
                    /\ SelectedBefore(i) = "proceed"
                    /\ \E j \in 1..(i - 1) :
                          /\ EventAt(j) = "Action selected"
                          /\ session_logs[j].step = k
                          /\ session_logs[j].details.action = "proceed"
               [] event = "Help displayed" -> SelectedBefore(i) = "help"
               [] event = "Step retry" -> SelectedBefore(i) = "retry"
               [] event = Terminated -> SelectedBefore(i) = "exit"
               [] OTHER -> TRUE
    /\ MainPc \in {"dispatch", "step_completed", "step_retry", "exit_msg", "exit_log"} =>
          /\ Logged("Action selected")
          /\ session_logs[LastIndexOf("Action selected")].details.action = action
          /\ session_logs[LastIndexOf("Action selected")].step = current_step + 1

\* the first step was retried and completed, and the second step has reached
\* its menu
C18_Witness ==
    /\ current_step = 1 /\ MainPc = "show_action_menu"
    /\ Logged("Step retry") /\ Logged("Step completed")

\* the main flow is inside run_step
C20_InStep ==
    \/ MainPc \in LoopPcs \ {"while", "increment"}
    \/ MainPc \in ExportPcs /\ frames[1].ret = "show_action_menu"

(***************************************************************************)
(* C20: an interrupt signal alone never ends a step in progress: run_step  *)
(* is left only after "proceed" (True), a confirmed "exit" (False) or by   *)
(* raising; a signal moves nothing in the interrupted flow; the wait loop  *)
(* keeps waiting whatever is_running is; and a step that returned True is  *)
(* counted although is_running is false.                                   *)
(***************************************************************************)
C20_SignalDoesNotEndStep ==
    /\ [][(C20_InStep /\ ~C20_InStep') =>
            \/ /\ MainPc = "step_completed" /\ action = "proceed"
               /\ MainPc' = "increment"
               /\ session_logs'[Len(session_logs')].event = "Step completed"
            \/ /\ MainPc = "exit_log" /\ action = "exit"
               /\ MainPc' = "after_loop"
            \/ /\ MainPc' = "except" /\ error'.msg # ""]_vars
    /\ [][sigCount' # sigCount =>
            /\ frames'[1] = frames[1]
            /\ session_logs' = session_logs
            /\ current_step' = current_step
            /\ kbuf' = kbuf]_vars
    /\ [][(MainPc = "show_action_menu" /\ kbuf = <<>>) =>
            MainPc' = "show_action_menu"]_vars
    /\ [][(MainPc = "increment" /\ MainPc' # "increment") =>
            current_step' = current_step + 1]_vars

\* a signal arrived while the first step waited in its menu; the operator then
\* selected proceed, and the step was completed and counted
C20_Witness ==
    /\ ~is_running /\ current_step = 1 /\ sigCount = 1
    /\ \E w \in MessageIndexes(WarningMessage) :
          /\ session_logs[w].step = 1
          /\ LoggedBefore(w, "Progress completed", 1)
          /\ ~LoggedBefore(w, "Action selected", 1)
          /\ \E i, j \in LogIndexes :
                /\ w < i /\ i < j
                /\ EventAt(i) = "Action selected"
                /\ session_logs[i].details.action = "proceed"
                /\ EventAt(j) = "Step completed" /\ session_logs[j].step = 1


(***************************************************************************)
(* Fair scheduling: the interpreter keeps running the flow on top of the   *)
(* stack whenever that flow has a step to take.  Keystrokes and signals    *)
(* come from outside and are under no fairness condition.                  *)
(***************************************************************************)
ProgramStep ==
    \/ handle_interrupt_msg
    \/ cleanup
    \/ cleanup_msg
    \/ show_export_options
    \/ export_logs_ok_msg
    \/ export_logs_ok_log
    \/ export_logs_fail_msg
    \/ export_logs_fail_log
    \/ run_automation_start
    \/ run_automation_while
    \/ run_step_header
    \/ run_step_started
    \/ display_progress_start
    \/ display_progress_run
    \/ display_progress_done
    \/ show_action_menu
    \/ run_step_proceed
    \/ run_step_completed
    \/ run_automation_increment
    \/ run_step_retry
    \/ run_step_retry_log
    \/ run_step_help
    \/ run_step_logs
    \/ run_step_exit
    \/ run_step_exit_msg
    \/ run_step_exit_log
    \/ run_step_summary
    \/ run_automation_after_loop
    \/ run_automation_completed_msg
    \/ run_automation_completed_ask
    \/ run_automation_except
    \/ run_automation_except_log

FairSpec == Spec /\ WF_vars(ProgramStep)

\* the running flow polls the keyboard and no keystroke is pending
AwaitingKey == Top.pc = "show_action_menu" /\ kbuf = <<>>

\* the running flow is at the export-format prompt
AwaitingFormat == Top.pc = "show_export_options"

(***************************************************************************)
(* C19: under fair scheduling, a run in which the operator does not leave  *)
(* the action menu or a prompt waiting forever terminates: run_automation  *)
(* reaches its end, having started at most len(steps) steps and having run *)
(* cleanup.  The only places where a run stays forever are the wait for a  *)
(* keystroke and an unanswered prompt.                                     *)
(***************************************************************************)
C19_RunTerminates ==
    /\ ([]<>(~AwaitingKey) /\ []<>(~AwaitingFormat)) => <>(MainPc = "done")
    /\ [](CountAfter(0, "Step started") <= Len(steps))
    /\ [](MainPc = "done" =>
            /\ cleanup_calls >= 1
            /\ session_logs[Len(session_logs)].details.message
                 = <<"Cleanup completed">>)

\* a two-step run has returned after a signal and two "proceed"
C19_Witness ==
    /\ MainPc = "done" /\ Len(steps) = 2 /\ sigCount = 1
    /\ CountAfter(0, "Step completed") = 2


(***************************************************************************)
(* _format_logs_as_json: json.dumps(log_data, indent=2), and json.loads.   *)
(*                                                                         *)
(* A Python str is a sequence of code points, the rendered text a sequence *)
(* of characters too.  A value that json handles is a record tagged with   *)
(* its kind: "str" (code points), "int", "obj" (a dict: its key/value      *)
(* pairs in insertion order) and "arr" (a list).  The program appends      *)
(* details whose keys are str and whose values are str or int.             *)
(***************************************************************************)
PyStr(s) == [type |-> "str", val |-> s]
PyInt(n) == [type |-> "int", val |-> n]
PyDict(pairs) == [type |-> "obj", val |-> pairs]
PyList(items) == [type |-> "arr", val |-> items]
Pair(key, value) == [key |-> key, value |-> value]

CH_TAB == 9
CH_NEWLINE == 10
CH_RETURN == 13
CH_SPACE == 32
CH_QUOTE == 34
CH_COMMA == 44
CH_MINUS == 45
CH_ZERO == 48
CH_COLON == 58
CH_LBRACKET == 91
CH_BACKSLASH == 92
CH_RBRACKET == 93
CH_u == 117
CH_LBRACE == 123
CH_RBRACE == 125
\* the first code point outside the basic plane, and the surrogate ranges
SUPPLEMENTARY == 65536
HIGH_SURROGATE == 55296
LOW_SURROGATE == 56320

\* '{0:04x}'.format(n)
HexDigit(n) == IF n < 10 THEN CH_ZERO + n ELSE 87 + n
Hex4(n) ==
    <<HexDigit(n \div 4096), HexDigit((n \div 256) % 16),
      HexDigit((n \div 16) % 16), HexDigit(n % 16)>>

\* a variant of EscapeChar that writes every character as it is
EscapeChar_raw(c) == <<c>>

\* json.encoder.py_encode_basestring_ascii: one character of a string
EscapeChar(c) ==
    IF c = CH_QUOTE THEN <<CH_BACKSLASH, CH_QUOTE>>
    ELSE IF c = CH_BACKSLASH THEN <<CH_BACKSLASH, CH_BACKSLASH>>
    ELSE IF c = CH_NEWLINE THEN <<CH_BACKSLASH, 110>>
    ELSE IF c = CH_RETURN THEN <<CH_BACKSLASH, 114>>
    ELSE IF c = CH_TAB THEN <<CH_BACKSLASH, 116>>
    ELSE IF c = 8 THEN <<CH_BACKSLASH, 98>>
    ELSE IF c = 12 THEN <<CH_BACKSLASH, 102>>
    ELSE IF c >= CH_SPACE /\ c <= 126 THEN <<c>>
    ELSE IF c < SUPPLEMENTARY THEN <<CH_BACKSLASH, CH_u>> \o Hex4(c)
    ELSE LET n == c - SUPPLEMENTARY IN
         <<CH_BACKSLASH, CH_u>> \o Hex4(HIGH_SURROGATE + (n \div 1024))
         \o <<CH_BACKSLASH, CH_u>> \o Hex4(LOW_SURROGATE + (n % 1024))

RECURSIVE EscapeFrom(_, _)
EscapeFrom(s, i) ==
    IF i > Len(s) THEN <<>> ELSE EscapeChar(s[i]) \o EscapeFrom(s, i + 1)

EncodeString(s) == <<CH_QUOTE>> \o EscapeFrom(s, 1) \o <<CH_QUOTE>>

\* int.__repr__
RECURSIVE Digits(_)
Digits(n) ==
    IF n < 0 THEN <<CH_MINUS>> \o Digits(0 - n)
    ELSE IF n < 10 THEN <<CH_ZERO + n>>
    ELSE Digits(n \div 10) \o <<CH_ZERO + (n % 10)>>

\* indent=2: a newline and two spaces for each level of nesting
Newline(level) == <<CH_NEWLINE>> \o [i \in 1..(2 * level) |-> CH_SPACE]

RECURSIVE Encode(_, _), EncodeItems(_, _, _), EncodeMembers(_, _, _)
\* json.dumps(v, indent=2) at this level of nesting
Encode(v, level) ==
    CASE v.type = "str" -> EncodeString(v.val)
      [] v.type = "int" -> Digits(v.val)
      [] v.type = "arr" ->
            IF v.val = <<>> THEN <<CH_LBRACKET, CH_RBRACKET>>
            ELSE <<CH_LBRACKET>> \o EncodeItems(v.val, 1, level + 1)
                 \o Newline(level) \o <<CH_RBRACKET>>
      [] v.type = "obj" ->
            IF v.val = <<>> THEN <<CH_LBRACE, CH_RBRACE>>
            ELSE <<CH_LBRACE>> \o EncodeMembers(v.val, 1, level + 1)
                 \o Newline(level) \o <<CH_RBRACE>>

EncodeItems(items, i, level) ==
    IF i > Len(items) THEN <<>>
    ELSE (IF i > 1 THEN <<CH_COMMA>> ELSE <<>>) \o Newline(level)
         \o Encode(items[i], level) \o EncodeItems(items, i + 1, level)

EncodeMembers(pairs, i, level) ==
    IF i > Len(pairs) THEN <<>>
    ELSE (IF i > 1 THEN <<CH_COMMA>> ELSE <<>>) \o Newline(level)
         \o EncodeString(pairs[i].key) \o <<CH_COLON, CH_SPACE>>
         \o Encode(pairs[i].value, level) \o EncodeMembers(pairs, i + 1, level)

\* the code points of the names the rendering uses as keys
K_session_start == <<115, 101, 115, 115, 105, 111, 110, 95, 115, 116, 97, 114, 116>>
K_logs == <<108, 111, 103, 115>>
K_timestamp == <<116, 105, 109, 101, 115, 116, 97, 109, 112>>
K_event == <<101, 118, 101, 110, 116>>
K_step == <<115, 116, 101, 112>>
K_details == <<100, 101, 116, 97, 105, 108, 115>>

\* datetime.isoformat(), for the logical clock: "T" and the tick
isoformat(t) == <<84>> \o Digits(t)

\* the dict log_event builds
EntryAsDict(e) ==
    PyDict(<<Pair(K_timestamp, PyStr(isoformat(e.timestamp))), Pair(K_event, PyStr(e.event)),
          Pair(K_step, PyInt(e.step)), Pair(K_details, PyDict(e.details))>>)

\* log_data = {"session_start": ..., "logs": self.session_logs}
_format_logs_as_json ==
    Encode(PyDict(<<Pair(K_session_start, PyStr(isoformat(0))),
                 Pair(K_logs, PyList([i \in 1..Len(session_logs) |->
                                      EntryAsDict(session_logs[i])]))>>), 0)


(***************************************************************************)
(* json.loads, for the texts json.dumps writes: objects, arrays, strings   *)
(* and integers.  A scan yields the value read and the position after it.  *)
(***************************************************************************)
ParseFailed == [type |-> "error"]
Failure == [ok |-> FALSE, val |-> ParseFailed, pos |-> 0]
Success(v, p) == [ok |-> TRUE, val |-> v, pos |-> p]

Whitespace == {CH_SPACE, CH_TAB, CH_NEWLINE, CH_RETURN}

RECURSIVE SkipWhitespace(_, _)
SkipWhitespace(t, p) ==
    IF p <= Len(t) /\ t[p] \in Whitespace THEN SkipWhitespace(t, p + 1) ELSE p

HexValue(c) ==
    IF c >= CH_ZERO /\ c <= 57 THEN c - CH_ZERO
    ELSE IF c >= 97 /\ c <= 102 THEN c - 87
    ELSE IF c >= 65 /\ c <= 70 THEN c - 55
    ELSE -1

\* the four hex digits at p as a number, -1 if they are not four hex digits
ParseHex4(t, p) ==
    IF p + 3 > Len(t) \/ \E i \in 0..3 : HexValue(t[p + i]) < 0 THEN -1
    ELSE HexValue(t[p]) * 4096 + HexValue(t[p + 1]) * 256
         + HexValue(t[p + 2]) * 16 + HexValue(t[p + 3])

\* the character a one-letter escape stands for, -1 if it is none
Unescape(c) ==
    CASE c = CH_QUOTE -> CH_QUOTE
      [] c = CH_BACKSLASH -> CH_BACKSLASH
      [] c = 47 -> 47
      [] c = 98 -> 8
      [] c = 102 -> 12
      [] c = 110 -> CH_NEWLINE
      [] c = 114 -> CH_RETURN
      [] c = 116 -> CH_TAB
      [] OTHER -> -1

\* json.decoder.py_scanstring: p is the position after the opening quote
RECURSIVE ScanString(_, _, _)
ScanString(t, p, acc) ==
    IF p > Len(t) THEN Failure
    ELSE IF t[p] = CH_QUOTE THEN Success(PyStr(acc), p + 1)
    ELSE IF t[p] # CH_BACKSLASH THEN
        IF t[p] < CH_SPACE THEN Failure
        ELSE ScanString(t, p + 1, Append(acc, t[p]))
    ELSE IF p + 1 > Len(t) THEN Failure
    ELSE IF t[p + 1] # CH_u THEN
        IF Unescape(t[p + 1]) < 0 THEN Failure
        ELSE ScanString(t, p + 2, Append(acc, Unescape(t[p + 1])))
    ELSE LET uni == ParseHex4(t, p + 2)
             low == IF /\ p + 7 <= Len(t)
                       /\ t[p + 6] = CH_BACKSLASH /\ t[p + 7] = CH_u
                    THEN ParseHex4(t, p + 8) ELSE -1
         IN IF uni < 0 THEN Failure
            ELSE IF /\ uni >= HIGH_SURROGATE /\ uni < LOW_SURROGATE
                    /\ low >= LOW_SURROGATE /\ low < LOW_SURROGATE + 1024
            THEN ScanString(t, p + 12,
                     Append(acc, SUPPLEMENTARY + (uni - HIGH_SURROGATE) * 1024
                                 + (low - LOW_SURROGATE)))
            ELSE ScanString(t, p + 6, Append(acc, uni))

IsDigit(c) == c >= CH_ZERO /\ c <= 57

RECURSIVE ScanDigits(_, _, _)
ScanDigits(t, p, acc) ==
    IF p <= Len(t) /\ IsDigit(t[p])
    THEN ScanDigits(t, p + 1, acc * 10 + (t[p] - CH_ZERO))
    ELSE Success(PyInt(acc), p)

\* json.scanner NUMBER_RE, integers only: -?(0|[1-9]\d*)
ScanNumber(t, p) ==
    LET neg == t[p] = CH_MINUS
        q == IF neg THEN p + 1 ELSE p
        n == IF t[q] = CH_ZERO THEN Success(PyInt(0), q + 1) ELSE ScanDigits(t, q, 0)
    IN IF q > Len(t) \/ ~IsDigit(t[q]) THEN Failure
       ELSE IF neg THEN Success(PyInt(0 - n.val.val), n.pos) ELSE n

\* dict assignment: a repeated key keeps its place and takes the new value
Put(pairs, key, value) ==
    IF \E i \in 1..Len(pairs) : pairs[i].key = key
    THEN [i \in 1..Len(pairs) |->
            IF pairs[i].key = key THEN Pair(key, value) ELSE pairs[i]]
    ELSE Append(pairs, Pair(key, value))

RECURSIVE ScanValue(_, _), ScanItems(_, _, _), ScanMembers(_, _, _)
\* json.scanner.py_make_scanner._scan_once: p is at the value's first character
ScanValue(t, p) ==
    IF p > Len(t) THEN Failure
    ELSE IF t[p] = CH_QUOTE THEN ScanString(t, p + 1, <<>>)
    ELSE IF t[p] = CH_LBRACE THEN
        LET q == SkipWhitespace(t, p + 1) IN
        IF q <= Len(t) /\ t[q] = CH_RBRACE THEN Success(PyDict(<<>>), q + 1)
        ELSE ScanMembers(t, q, <<>>)
    ELSE IF t[p] = CH_LBRACKET THEN
        LET q == SkipWhitespace(t, p + 1) IN
        IF q <= Len(t) /\ t[q] = CH_RBRACKET THEN Success(PyList(<<>>), q + 1)
        ELSE ScanItems(t, q, <<>>)
    ELSE IF t[p] = CH_MINUS \/ IsDigit(t[p]) THEN ScanNumber(t, p)
    ELSE Failure

\* json.decoder.JSONArray: p is at the first character of an item
ScanItems(t, p, acc) ==
    LET v == ScanValue(t, p)
        q == SkipWhitespace(t, v.pos)
    IN IF ~v.ok \/ q > Len(t) THEN Failure
       ELSE IF t[q] = CH_RBRACKET THEN Success(PyList(Append(acc, v.val)), q + 1)
       ELSE IF t[q] = CH_COMMA
            THEN ScanItems(t, SkipWhitespace(t, q + 1), Append(acc, v.val))
       ELSE Failure

\* json.decoder.JSONObject: p is at the opening quote of a key
ScanMembers(t, p, acc) ==
    LET k == IF p <= Len(t) /\ t[p] = CH_QUOTE
             THEN ScanString(t, p + 1, <<>>) ELSE Failure
        c == SkipWhitespace(t, k.pos)
        v == IF k.ok /\ c <= Len(t) /\ t[c] = CH_COLON
             THEN ScanValue(t, SkipWhitespace(t, c + 1)) ELSE Failure
        q == SkipWhitespace(t, v.pos)
    IN IF ~v.ok \/ q > Len(t) THEN Failure
       ELSE IF t[q] = CH_RBRACE
            THEN Success(PyDict(Put(acc, k.val.val, v.val)), q + 1)
       ELSE IF t[q] = CH_COMMA
            THEN ScanMembers(t, SkipWhitespace(t, q + 1), Put(acc, k.val.val, v.val))
       ELSE Failure

\* json.loads(t): one value, with nothing but whitespace around it
json_loads(t) ==
    LET v == ScanValue(t, SkipWhitespace(t, 1)) IN
    IF v.ok /\ SkipWhitespace(t, v.pos) > Len(t) THEN v.val ELSE ParseFailed

\* d[key] for a parsed dict, ParseFailed when d is no dict or has no such key
Get(d, key) ==
    IF d.type = "obj" /\ \E i \in 1..Len(d.val) : d.val[i].key = key
    THEN d.val[CHOOSE i \in 1..Len(d.val) : d.val[i].key = key].value
    ELSE ParseFailed


(***************************************************************************)
(* The rendering on its own: events are appended with log_event, the log   *)
(* is rendered with _format_logs_as_json, and the text is read back with   *)
(* json.loads.                                                             *)
(***************************************************************************)
MaxEntries == 2

\* event names: plain, with the characters json escapes, with characters
\* outside ASCII and outside the basic plane
JsonEvents == {<<97>>, <<CH_QUOTE, CH_BACKSLASH, 47>>, <<CH_NEWLINE, 233, 127881>>}

\* details: none (`details or {}`), one str value, an int and a str value
JsonDetails ==
    {<<>>,
     <<Pair(<<97>>, PyStr(<<CH_QUOTE, 127881, CH_TAB>>))>>,
     <<Pair(<<110, 233>>, PyInt(120)), Pair(<<CH_SPACE>>, PyStr(<<>>))>>}

JsonInit ==
    /\ steps = <<>>
    /\ current_step \in 0..MaxSteps
    /\ session_logs = <<>>
    /\ is_running = TRUE
    /\ frames = <<Frame("log_event", "")>>
    /\ action = ""
    /\ desc = <<>>
    /\ error = [msg |-> "", step |-> 0, at |-> 0]
    /\ kbuf = <<>>
    /\ clock = 0
    /\ sigCount = 0
    /\ keyCount = 0
    /\ exports = 0
    /\ cleanup_calls = 0
    /\ content = <<>>
    /\ parsed = NotParsed

\* self.log_event(event, details)
AppendEvent ==
    /\ At("log_event")
    /\ Len(session_logs) < MaxEntries
    /\ \E event \in JsonEvents, details \in JsonDetails : log_event(event, details)
    /\ UNCHANGED <<steps, current_step, is_running, frames, action, desc, error,
                   kbuf, sigCount, keyCount, exports, cleanup_calls, content, parsed>>

\* content = self._format_logs_as_json()
RenderLogs ==
    /\ At("log_event")
    /\ content' = _format_logs_as_json
    /\ Goto("rendered")
    /\ UNCHANGED <<steps, current_step, session_logs, is_running, action, desc,
                   error, kbuf, clock, sigCount, keyCount, exports, cleanup_calls,
                   parsed>>

\* json.loads(content)
ParseRendering ==
    /\ At("rendered")
    /\ parsed' = json_loads(content)
    /\ Goto("parsed")
    /\ UNCHANGED <<steps, current_step, session_logs, is_running, action, desc,
                   error, kbuf, clock, sigCount, keyCount, exports, cleanup_calls,
                   content>>

JsonNext == AppendEvent \/ RenderLogs \/ ParseRendering

JsonSpec == JsonInit /\ [][JsonNext]_vars

(***************************************************************************)
(* C16: parsing the JSON rendering of the log yields a "logs" list with as *)
(* many entries as were appended, in the same order, each with the event,  *)
(* step and details values that were appended.                             *)
(***************************************************************************)
C16_JsonRoundTrip ==
    At("parsed") =>
        LET logs == Get(parsed, K_logs) IN
        /\ logs.type = "arr"
        /\ Len(logs.val) = Len(session_logs)
        /\ \A i \in 1..Len(session_logs) :
              /\ Get(logs.val[i], K_event) = PyStr(session_logs[i].event)
              /\ Get(logs.val[i], K_step) = PyInt(session_logs[i].step)
              /\ Get(logs.val[i], K_details) = PyDict(session_logs[i].details)

\* two events were appended, rendered and read back: one whose name holds a
\* quote and a backslash, one with a character outside the basic plane in
\* its details
C16_Witness ==
    /\ At("parsed") /\ Len(session_logs) = 2
    /\ session_logs[1].event = <<CH_QUOTE, CH_BACKSLASH, 47>>
    /\ session_logs[2].details = <<Pair(<<97>>, PyStr(<<CH_QUOTE, 127881, CH_TAB>>))>>

====
